---- MODULE Spec2Model ----
(***************************************************************************)
(* Model of the vibe-check violation-detection engine.                     *)
(*                                                                         *)
(*   - src/src/rules.py      RulesManager (catalog, suppression, penalty)  *)
(*   - src/src/scanner.py    CodeScanner  (scan_file, scan_directory,      *)
(*                           the AST pass, the two line helpers)           *)
(*   - src/vibeguard_legacy.py   run_scan / main (the running score, the   *)
(*                           brutal-mode exit, the history audit)          *)
(*                                                                         *)
(* A file's text is a sequence of lines and a line is a sequence of        *)
(* tokens; the helpers and the patterns are computed on the tokens the     *)
(* way the code computes them on characters.  "\n" is the only line        *)
(* separator of the modelled files.                                        *)
(***************************************************************************)
EXTENDS Integers, Sequences, FiniteSets, TLC

VARIABLES
    ignore_rules,    \* RulesManager.ignore_rules
    op,              \* the last call made on the scanner
    brutal_mode,     \* the brutal_mode argument of that call
    target,          \* its argument: a file (scan_file) or a tree (scan_directory)
    returned,        \* the list it returned
    files_scanned,   \* CodeScanner.files_scanned
    calls,           \* how many scans this scanner instance has run
    total_deductions,  \* GitScanner: the deductions scan_history returned
    INPUT_BRUTAL_MODE,  \* vibeguard_legacy.py: the environment's brutal flag
    INPUT_THRESHOLD,    \* the environment's threshold
    IGNORE_RULES,       \* the "ignore" list of .vibeguardrc
    work_tree,       \* the files os.walk(".") yields, in walk order
    history,         \* what git answers in the working directory
    pc,              \* where the run is: "scan", "main", "done" ("off": no run)
    file_no,         \* run_scan: the index of the file being scanned
    step_no,         \* run_scan: the index of the next finding of that file
    score,           \* run_scan: score
    violations,      \* run_scan: violations
    audited,         \* whether audit_git_history has been called
    exit_code        \* the argument of sys.exit, -1 while running

scanner_vars == <<ignore_rules, op, brutal_mode, target, returned, files_scanned, calls,
                  total_deductions>>

legacy_vars == <<INPUT_BRUTAL_MODE, INPUT_THRESHOLD, IGNORE_RULES, work_tree, history, pc,
                 file_no, step_no, score, violations, audited, exit_code>>

vars == <<scanner_vars, legacy_vars>>

\* ------------------------------------------------------------------ bounds
MaxLines == 3
MaxFiles == 2
MaxCalls == 2

\* ------------------------------------------------------------------ tokens
WS     == " "
HASH   == "#"
SLASH2 == "//"
STAR   == "*"
EVAL   == "eval("
PRINTC == "print("
TODO   == "TODO"
MARK1  == "vibeguard:ignore"
MARK2  == "vibeguard: ignore"
AISTR  == "'As an AI language model'"
FILLER == "x = 1"

RECURSIVE SeqsUpTo(_, _)
SeqsUpTo(S, n) ==
    IF n = 0 THEN {<<>>}
    ELSE LET shorter == SeqsUpTo(S, n - 1)
         IN  shorter \cup {Append(s, x) : s \in {t \in shorter : Len(t) = n - 1}, x \in S}

RECURSIVE Concat(_)
Concat(ss) == IF ss = <<>> THEN <<>> ELSE Head(ss) \o Concat(Tail(ss))

RECURSIVE SumDeductions(_)
SumDeductions(vs) == IF vs = <<>> THEN 0 ELSE Head(vs).deduction + SumDeductions(Tail(vs))

Take(s, n) == SubSeq(s, 1, IF Len(s) < n THEN Len(s) ELSE n)

HasToken(line, tok) == \E k \in 1..Len(line) : line[k] = tok

\* str.strip(): the line without its leading and trailing whitespace tokens.
RECURSIVE lstrip(_)
lstrip(line) ==
    IF line # <<>> /\ Head(line) = WS THEN lstrip(Tail(line)) ELSE line

RECURSIVE rstrip(_)
rstrip(line) ==
    IF line # <<>> /\ line[Len(line)] = WS THEN rstrip(SubSeq(line, 1, Len(line) - 1)) ELSE line

strip(line) == rstrip(lstrip(line))

startswith(line, tok) == line # <<>> /\ Head(line) = tok

\* ------------------------------------------------------------------ rules.py
\* The catalog: the records of RULES the model keeps, in declaration order.
rules == <<
    [id |-> "SEC01", name |-> "Committed .env file", type |-> "filename",
     pattern |-> "^\\.env$", weight |-> 100, critical |-> TRUE, max |-> 0,
     desc |-> "Security risk: exposed secrets"],
    [id |-> "SEC03", name |-> "Private Key File", type |-> "filename",
     pattern |-> "\\.(pem|key|p12|pfx)$", weight |-> 100, critical |-> FALSE, max |-> 0,
     desc |-> "Private key should not be committed"],
    [id |-> "SEC06", name |-> "eval() Usage", type |-> "regex",
     pattern |-> "\\beval\\s*\\(", weight |-> 70, critical |-> FALSE, max |-> 0,
     desc |-> "Dangerous code execution"],
    [id |-> "STB03", name |-> "TODO in Code", type |-> "regex",
     pattern |-> "(//|#)\\s*TODO", weight |-> 15, critical |-> FALSE, max |-> 0,
     desc |-> "Unfinished work"],
    [id |-> "MNT01", name |-> "Huge File", type |-> "lines",
     pattern |-> "", weight |-> 30, critical |-> FALSE, max |-> 2000,
     desc |-> "File too long (>2000 lines)"],
    [id |-> "HYG02", name |-> "Print Statement", type |-> "regex",
     pattern |-> "^\\s*print\\s*\\(", weight |-> 5, critical |-> FALSE, max |-> 0,
     desc |-> "Debug output"],
    [id |-> "HYG07", name |-> "No Newline at EOF", type |-> "eof",
     pattern |-> "", weight |-> 5, critical |-> FALSE, max |-> 0,
     desc |-> "Missing final newline"],
    [id |-> "VCS07", name |-> "IDE Settings Committed", type |-> "path",
     pattern |-> "\\.(vscode|idea)/", weight |-> 15, critical |-> FALSE, max |-> 0,
     desc |-> "Personal preference pollution"],
    [id |-> "AI01", name |-> "Committed AI Response", type |-> "regex",
     pattern |-> "As an AI language model", weight |-> 500, critical |-> TRUE, max |-> 0,
     desc |-> "Literally copy-pasted ChatGPT"],
    [id |-> "GIT01", name |-> "Lazy Commit Message", type |-> "git",
     pattern |-> "", weight |-> 15, critical |-> FALSE, max |-> 0,
     desc |-> "Message provides zero context"],
    [id |-> "GIT02", name |-> "Revert War", type |-> "git",
     pattern |-> "", weight |-> 30, critical |-> FALSE, max |-> 0,
     desc |-> "Reverting a revert indicates chaos"],
    [id |-> "GIT03", name |-> "Unprofessional Commit", type |-> "git",
     pattern |-> "", weight |-> 10, critical |-> FALSE, max |-> 0,
     desc |-> "Commit contains slang/jokes"],
    [id |-> "GIT04", name |-> "Monster Commit", type |-> "git",
     pattern |-> "", weight |-> 40, critical |-> FALSE, max |-> 0,
     desc |-> "Single commit touches >50 files"],
    [id |-> "GIT05", name |-> "Friday Deploy", type |-> "git",
     pattern |-> "", weight |-> 50, critical |-> FALSE, max |-> 0,
     desc |-> "Read-only Friday violation"],
    [id |-> "GIT06", name |-> "3AM Commit", type |-> "git",
     pattern |-> "", weight |-> 20, critical |-> FALSE, max |-> 0,
     desc |-> "Coding at ungodly hours"],
    [id |-> "GIT07", name |-> "Missing Ticket ID", type |-> "git",
     pattern |-> "", weight |-> 12, critical |-> FALSE, max |-> 0,
     desc |-> "No issue reference in commit"]
>>

RuleIds == {rules[i].id : i \in 1..Len(rules)}

NoRule == [id |-> "None"]

\* RulesManager.get_active_rules
get_active_rules(ignored) ==
    SelectSeq(rules, LAMBDA r : r.id \notin ignored)

\* RulesManager.get_rule_by_id: looks the id up in self.rules.
get_rule_by_id(ignored, rule_id) ==
    LET found == SelectSeq(rules, LAMBDA r : r.id = rule_id)
    IN  IF found = <<>> THEN NoRule ELSE Head(found)

\* RulesManager.get_rules_by_type
get_rules_by_type(ignored, rule_type) ==
    SelectSeq(get_active_rules(ignored), LAMBDA r : r.type = rule_type)

\* A penalty that brutal mode leaves alone.
calculate_penalty_flat(rule, brutal) == rule.weight

\* RulesManager.calculate_penalty
calculate_penalty(rule, brutal) ==
    IF brutal THEN rule.weight * 2 ELSE rule.weight

\* ------------------------------------------------------------------ files
\* A path is its directory part, the stem of the file name and the extension
\* (os.path.basename / os.path.splitext); a file is a path, the lines of its
\* text, the count of further plain lines after them, whether the text ends
\* with a newline and whether open() succeeds.
Path(d, s, e) == [dir |-> d, stem |-> s, ext |-> e]

AppPy == Path("", "app", ".py")

TEXT_EXTENSIONS ==
    {".py", ".js", ".ts", ".jsx", ".tsx", ".go", ".java", ".c", ".cpp", ".h", ".rb",
     ".php", ".html", ".css", ".scss", ".sass", ".vue", ".svelte", ".md", ".txt",
     ".yml", ".yaml", ".json", ".xml", ".sh", ".bash"}

File(p, ls, pd, nl, rd) ==
    [path |-> p, lines |-> ls, pad |-> pd, eofnl |-> nl, readable |-> rd]

\* len(content.splitlines())
NumLines(f) == Len(f.lines) + f.pad

\* lines[n - 1] if n <= len(lines) else ""
LineAt(f, n) ==
    IF n <= Len(f.lines) THEN f.lines[n]
    ELSE IF n <= NumLines(f) THEN <<FILLER>>
    ELSE <<>>

\* 'test' in filepath.lower()
ContainsTestLower(p) ==
    p.stem \in {"test_app", "Test_app"} \/ p.dir \in {"tests/", "TESTS/"}

\* 'test' in filepath
ContainsTest(p) ==
    p.stem = "test_app" \/ p.dir = "tests/"

\* re.search(pattern, filename) and re.search(pattern, filepath) for the
\* name and path patterns of the catalog.
search_name(pattern, p) ==
    CASE pattern = "^\\.env$"            -> p.stem = ".env" /\ p.ext = ""
      [] pattern = "\\.(vscode|idea)/"   -> p.dir \in {".vscode/", ".idea/"}
      [] pattern = "\\.(pem|key|p12|pfx)$" -> p.ext \in {".pem", ".key", ".p12", ".pfx"}
      [] OTHER                           -> FALSE

\* ------------------------------------------------------------------ scanner.py helpers
\* is_comment_line on the line as it is, not stripped.
is_comment_line_unstripped(line, file_ext) ==
    IF file_ext \in {".py", ".sh", ".bash", ".yml", ".yaml"}
    THEN startswith(line, HASH)
    ELSE IF file_ext \in {".js", ".ts", ".jsx", ".tsx", ".java", ".c", ".cpp", ".go"}
    THEN startswith(line, SLASH2) \/ startswith(line, STAR)
    ELSE FALSE

\* CodeScanner.is_comment_line
is_comment_line(line, file_ext) ==
    LET stripped == strip(line)
    IN  IF file_ext \in {".py", ".sh", ".bash", ".yml", ".yaml"}
        THEN startswith(stripped, HASH)
        ELSE IF file_ext \in {".js", ".ts", ".jsx", ".tsx", ".java", ".c", ".cpp", ".go"}
        THEN startswith(stripped, SLASH2) \/ startswith(stripped, STAR)
        ELSE FALSE

\* has_ignore_comment knowing only the spelling without the space.
has_ignore_comment_one_spelling(line, next_line) ==
    \/ HasToken(line, MARK1)
    \/ next_line # <<>> /\ HasToken(next_line, MARK1)

\* has_ignore_comment that leaves next_line unread.
has_ignore_comment_same_line(line, next_line) ==
    HasToken(line, MARK1) \/ HasToken(line, MARK2)

\* CodeScanner.has_ignore_comment; an empty next_line is falsy.
has_ignore_comment(line, next_line) ==
    \/ HasToken(line, MARK1) \/ HasToken(line, MARK2)
    \/ /\ next_line # <<>>
       /\ (HasToken(next_line, MARK1) \/ HasToken(next_line, MARK2))

\* rule['id'].startswith(('DOC', 'STB03', 'STB04', 'STB05')), over the ids
\* of the catalog.
CommentTolerantIds ==
    {"DOC01", "DOC02", "DOC03", "DOC04", "DOC05", "DOC06", "DOC07", "DOC08", "DOC09",
     "STB03", "STB04", "STB05"}

comment_tolerant(rule_id) == rule_id \in CommentTolerantIds

\* ------------------------------------------------------------------ re.finditer
IsBlank(line) == strip(line) = <<>>

\* Whether (//|#)\s*TODO matches from token k of the line.
RECURSIVE TodoFollows(_, _)
TodoFollows(line, k) ==
    IF k > Len(line) THEN FALSE
    ELSE IF line[k] = WS THEN TodoFollows(line, k + 1)
    ELSE line[k] = TODO

\* The number of matches of the pattern that start on this line.
LineHits(pattern, line) ==
    CASE pattern = "\\beval\\s*\\("          -> Cardinality({k \in 1..Len(line) : line[k] = EVAL})
      [] pattern = "As an AI language model"  -> Cardinality({k \in 1..Len(line) : line[k] = AISTR})
      [] pattern = "(//|#)\\s*TODO"           ->
            Cardinality({k \in 1..Len(line) : line[k] \in {HASH, SLASH2} /\ TodoFollows(line, k + 1)})
      [] pattern = "^\\s*print\\s*\\("        -> IF startswith(lstrip(line), PRINTC) THEN 1 ELSE 0
      [] OTHER                                -> 0

\* The first of the whitespace-only lines that directly precede line i: with
\* re.MULTILINE, ^\s* starts the match there, \s matching the newlines.
RECURSIVE BlankRunStart(_, _)
BlankRunStart(f, i) ==
    IF i > 1 /\ IsBlank(LineAt(f, i - 1)) THEN BlankRunStart(f, i - 1) ELSE i

\* content[:match.start()].count('\n') + 1 for a match found on line i.
MatchLine(pattern, f, i) ==
    IF pattern = "^\\s*print\\s*\\(" THEN BlankRunStart(f, i) ELSE i

\* list(re.finditer(pattern, content, MULTILINE | IGNORECASE)) as the line
\* numbers of the matches, in match order.
finditer(pattern, f) ==
    Concat([i \in 1..Len(f.lines) |->
              [k \in 1..LineHits(pattern, f.lines[i]) |-> MatchLine(pattern, f, i)]])

\* ------------------------------------------------------------------ the AST pass
\* The tokens of a line that are code: those before the first '#'.
RECURSIVE CodeRegion(_)
CodeRegion(line) ==
    IF line = <<>> \/ Head(line) = HASH THEN <<>>
    ELSE <<Head(line)>> \o CodeRegion(Tail(line))

\* Whether ast.parse accepts the line: its code is empty, or starts at
\* column 0 and is made of statements (a call, a string, an assignment).
ParsesLine(line) ==
    LET code == CodeRegion(line)
    IN  \/ IsBlank(code)
        \/ /\ Head(code) # WS
           /\ \A k \in 1..Len(code) : code[k] \in {WS, EVAL, PRINTC, AISTR, FILLER}

\* ast.parse(content) raises no SyntaxError.
Parses(f) == \A i \in 1..Len(f.lines) : ParsesLine(f.lines[i])

Violation(file, rule_id, rule_name, deduction, desc, line) ==
    [file |-> file, rule_id |-> rule_id, rule_name |-> rule_name,
     deduction |-> deduction, desc |-> desc, line |-> line]

\* line=None
NoLine == 0

\* A rule name as it is, and as f"{name} ({n} lines)".
PlainName(name) == <<name>>
CountedName(name, n) == <<name, n>>

\* What the walk does at one ast.Call node whose func is the Name `callee`,
\* at line line_num.
ast_call(ignored, f, brutal, callee, line_num) ==
    LET current_line == LineAt(f, line_num)
        next_line    == LineAt(f, line_num + 1)
        rule_id      == IF callee = EVAL THEN "SEC06" ELSE "HYG02"
        rule         == get_rule_by_id(ignored, rule_id)
        fires        == \/ callee = EVAL
                        \/ callee = PRINTC /\ ~ContainsTestLower(f.path)
    IN  IF fires /\ ~has_ignore_comment(current_line, next_line) /\ rule # NoRule
        THEN <<Violation(f.path, rule_id, PlainName(rule.name),
                         calculate_penalty(rule, brutal),
                         IF callee = EVAL THEN "Real eval() call detected via AST"
                                          ELSE "Print statement in production code",
                         line_num)>>
        ELSE <<>>

\* The calls of one line, in source order.
line_calls(ignored, f, brutal, i) ==
    LET code == CodeRegion(f.lines[i])
    IN  Concat([k \in 1..Len(code) |->
                  IF code[k] \in {EVAL, PRINTC}
                  THEN ast_call(ignored, f, brutal, code[k], i)
                  ELSE <<>>])

\* An AST pass that walks the calls of a text ast.parse rejects.
check_python_ast_violations_unparsed(ignored, f, brutal) ==
    Concat([i \in 1..Len(f.lines) |-> line_calls(ignored, f, brutal, i)])

\* CodeScanner.check_python_ast_violations
check_python_ast_violations(ignored, f, brutal) ==
    IF ~Parses(f) THEN <<>>
    ELSE Concat([i \in 1..Len(f.lines) |-> line_calls(ignored, f, brutal, i)])

\* ------------------------------------------------------------------ scan_file
\* The filename rules and the path rules.
name_rules(ignored, f, brutal, rule_type) ==
    LET rs == get_rules_by_type(ignored, rule_type)
    IN  Concat([j \in 1..Len(rs) |->
                  IF search_name(rs[j].pattern, f.path)
                  THEN <<Violation(f.path, rs[j].id, PlainName(rs[j].name),
                                   calculate_penalty(rs[j], brutal), rs[j].desc, NoLine)>>
                  ELSE <<>>])

\* Line-count rules that a file of exactly max lines breaks.
lines_rules_from_max(ignored, f, brutal) ==
    LET rs == get_rules_by_type(ignored, "lines")
    IN  Concat([j \in 1..Len(rs) |->
                  IF NumLines(f) >= rs[j].max
                  THEN <<Violation(f.path, rs[j].id, CountedName(rs[j].name, NumLines(f)),
                                   calculate_penalty(rs[j], brutal), rs[j].desc, NoLine)>>
                  ELSE <<>>])

\* The line-count rules.
lines_rules(ignored, f, brutal) ==
    LET rs == get_rules_by_type(ignored, "lines")
    IN  Concat([j \in 1..Len(rs) |->
                  IF NumLines(f) > rs[j].max
                  THEN <<Violation(f.path, rs[j].id, CountedName(rs[j].name, NumLines(f)),
                                   calculate_penalty(rs[j], brutal), rs[j].desc, NoLine)>>
                  ELSE <<>>])

\* Missing-trailing-newline rules that an ignore marker on the last line
\* silences.
eof_rules_suppressible(ignored, f, brutal) ==
    LET rs == get_rules_by_type(ignored, "eof")
    IN  Concat([j \in 1..Len(rs) |->
                  IF /\ NumLines(f) > 0 /\ ~f.eofnl
                     /\ ~has_ignore_comment(LineAt(f, NumLines(f)), <<>>)
                  THEN <<Violation(f.path, rs[j].id, PlainName(rs[j].name),
                                   calculate_penalty(rs[j], brutal), rs[j].desc, NoLine)>>
                  ELSE <<>>])

\* The missing-trailing-newline rules: content and not content.endswith('\n').
eof_rules(ignored, f, brutal) ==
    LET rs == get_rules_by_type(ignored, "eof")
    IN  Concat([j \in 1..Len(rs) |->
                  IF NumLines(f) > 0 /\ ~f.eofnl
                  THEN <<Violation(f.path, rs[j].id, PlainName(rs[j].name),
                                   calculate_penalty(rs[j], brutal), rs[j].desc, NoLine)>>
                  ELSE <<>>])

\* The number of matches of a rule the loop looks at.
MatchCap == 3

\* The iteration without the comment filter.
regex_match_no_comment_filter(rule, f, brutal, line_num) ==
    IF has_ignore_comment(LineAt(f, line_num), LineAt(f, line_num + 1)) THEN <<>>
    ELSE <<Violation(f.path, rule.id, PlainName(rule.name),
                     calculate_penalty(rule, brutal), rule.desc, line_num)>>

\* An iteration that leaves the comment filter out in brutal mode.
regex_match_brutal_unfiltered(rule, f, brutal, line_num) ==
    LET line_content == LineAt(f, line_num)
        next_line    == LineAt(f, line_num + 1)
    IN  IF has_ignore_comment(line_content, next_line) THEN <<>>
        ELSE IF ~brutal /\ is_comment_line(line_content, f.path.ext) /\ ~comment_tolerant(rule.id)
        THEN <<>>
        ELSE <<Violation(f.path, rule.id, PlainName(rule.name),
                         calculate_penalty(rule, brutal), rule.desc, line_num)>>

\* One iteration of `for match in matches[:3]`.
regex_match(rule, f, brutal, line_num) ==
    LET line_content == LineAt(f, line_num)
        next_line    == LineAt(f, line_num + 1)
    IN  IF has_ignore_comment(line_content, next_line) THEN <<>>
        ELSE IF is_comment_line(line_content, f.path.ext) /\ ~comment_tolerant(rule.id)
        THEN <<>>
        ELSE <<Violation(f.path, rule.id, PlainName(rule.name),
                         calculate_penalty(rule, brutal), rule.desc, line_num)>>

\* The content-pattern rules.
regex_rules(ignored, f, brutal) ==
    LET rs == get_rules_by_type(ignored, "regex")
    IN  Concat([j \in 1..Len(rs) |->
                  LET matches == Take(finditer(rs[j].pattern, f), MatchCap)
                  IN  Concat([m \in 1..Len(matches) |->
                                regex_match(rs[j], f, brutal, matches[m])])])

\* The body of the try block, once open() and read() have succeeded.
content_rules(ignored, f, brutal) ==
    (IF f.path.ext = ".py" THEN check_python_ast_violations(ignored, f, brutal) ELSE <<>>)
    \o lines_rules(ignored, f, brutal)
    \o eof_rules(ignored, f, brutal)
    \o regex_rules(ignored, f, brutal)

\* A read that succeeds on every file with a text extension.
reads_content_unchecked(f) == f.path.ext \in TEXT_EXTENSIONS

\* Whether scan_file reads the file (and counts it in files_scanned).
reads_content(f) == f.path.ext \in TEXT_EXTENSIONS /\ f.readable

\* CodeScanner.scan_file: the list it returns.
scan_file(ignored, f, brutal) ==
    name_rules(ignored, f, brutal, "filename")
    \o name_rules(ignored, f, brutal, "path")
    \o (IF reads_content(f) THEN content_rules(ignored, f, brutal) ELSE <<>>)

\* ------------------------------------------------------------------ scan_directory
IGNORE_DIRS ==
    {".git/", ".github/", "node_modules/", "dist/", "build/", "venv/", "__pycache__/",
     ".venv/", "vendor/", ".pytest_cache/"}

\* Whether os.walk, pruned of IGNORE_DIRS, reaches the file.  (No modelled
\* file is named in IGNORE_FILES and exclude_patterns is empty.)
walked(f) == f.path.dir \notin IGNORE_DIRS

\* The loop of scan_directory over the files of the tree, in walk order:
\* self.violations and self.files_scanned after it.
RECURSIVE walk(_, _, _, _)
walk(ignored, tree, brutal, acc) ==
    IF tree = <<>> THEN acc
    ELSE LET f == Head(tree)
         IN  walk(ignored, Tail(tree), brutal,
                  IF walked(f)
                  THEN [violations    |-> acc.violations \o scan_file(ignored, f, brutal),
                        files_scanned |-> acc.files_scanned + (IF reads_content(f) THEN 1 ELSE 0)]
                  ELSE acc)

\* CodeScanner.scan_directory
scan_directory(ignored, tree, brutal) ==
    walk(ignored, tree, brutal, [violations |-> <<>>, files_scanned |-> 0])

\* ------------------------------------------------------------------ inputs
PyLines ==
    { <<EVAL>>, <<PRINTC>>, <<HASH, EVAL, EVAL>>, <<EVAL, HASH, MARK1>>,
      <<WS, HASH, WS, TODO, WS, MARK2>>, <<>>, <<WS, HASH, WS, TODO>>, <<AISTR>>,
      <<EVAL, EVAL>>, <<SLASH2, EVAL>> }

JsLines ==
    { <<EVAL>>, <<SLASH2, EVAL>>, <<STAR, EVAL>>, <<SLASH2, WS, TODO>>,
      <<EVAL, SLASH2, MARK1>>, <<SLASH2, WS, TODO, WS, MARK2>> }

MdLines ==
    { <<HASH, EVAL, EVAL>>, <<HASH, WS, TODO>>, <<AISTR>>, <<EVAL, HASH, MARK2>> }

ShortTexts == { <<>>, <<<<EVAL>>>>, <<<<PRINTC>>>>, <<<<EVAL>>, <<PRINTC>>>> }

OtherPaths ==
    { Path("", "test_app", ".py"), Path("", "Test_app", ".py"), Path("tests/", "app", ".py"),
      Path("", ".env", ""), Path(".vscode/", "app", ".py"), Path(".vscode/", ".env", ""),
      Path("node_modules/", "app", ".py"), Path("", "server", ".pem") }

\* A text that does not end with a newline has a last line that is not empty.
WellFormed(f) == f.eofnl \/ (NumLines(f) > 0 /\ LineAt(f, NumLines(f)) # <<>>)

Files ==
    {File(AppPy, ls, 0, TRUE, TRUE) : ls \in SeqsUpTo(PyLines, MaxLines)}
    \cup {File(Path("", "app", ".js"), ls, 0, TRUE, TRUE) : ls \in SeqsUpTo(JsLines, MaxLines)}
    \cup {File(Path("", "notes", ".md"), ls, 0, TRUE, TRUE) : ls \in SeqsUpTo(MdLines, MaxLines)}
    \cup {f \in {File(p, ls, 0, nl, rd) :
                   p \in OtherPaths \cup {AppPy}, ls \in ShortTexts,
                   nl \in BOOLEAN, rd \in BOOLEAN} : WellFormed(f)}
    \cup {File(AppPy, ls, pd, TRUE, TRUE) : ls \in ShortTexts, pd \in {1999, 2000}}

DirFiles ==
    { File(AppPy, <<<<EVAL>>, <<PRINTC>>>>, 0, TRUE, TRUE),
      File(Path("", "main", ".py"), <<<<AISTR>>, <<EVAL>>>>, 0, TRUE, TRUE),
      File(Path("", ".env", ""), <<>>, 0, TRUE, TRUE),
      File(Path("", "test_app", ".py"), <<<<PRINTC>>>>, 0, FALSE, TRUE),
      File(Path("node_modules/", "app", ".py"), <<<<EVAL>>>>, 0, TRUE, TRUE),
      File(Path("", "notes", ".md"), <<<<HASH, WS, TODO>>, <<EVAL, HASH, MARK2>>>>, 0, TRUE, TRUE),
      File(Path("", "locked", ".py"), <<<<EVAL>>>>, 0, TRUE, FALSE) }

Trees ==
    {t \in SeqsUpTo(DirFiles, MaxFiles) :
        \A i, j \in 1..Len(t) : i # j => t[i].path # t[j].path}

IgnoreSets == { {}, {"SEC06"}, {"HYG02", "STB03", "SEC01"} }

NoTarget == [none |-> TRUE]

\* ------------------------------------------------------------------ CodeScanner
STARTING_SCORE == 1000

\* No run of vibeguard_legacy.py.
LegacyOff ==
    /\ INPUT_BRUTAL_MODE = FALSE
    /\ INPUT_THRESHOLD = 800
    /\ IGNORE_RULES = {}
    /\ work_tree = <<>>
    /\ history = NoTarget
    /\ pc = "off"
    /\ file_no = 0
    /\ step_no = 0
    /\ score = STARTING_SCORE
    /\ violations = <<>>
    /\ audited = FALSE
    /\ exit_code = -1

Init ==
    /\ ignore_rules = {}
    /\ op = "new"
    /\ brutal_mode = FALSE
    /\ target = NoTarget
    /\ returned = <<>>
    /\ files_scanned = 0
    /\ calls = 0
    /\ total_deductions = 0
    /\ LegacyOff

\* RulesManager.load_config
LoadConfig ==
    /\ op = "new"
    /\ \E ign \in IgnoreSets : ignore_rules' = ign
    /\ UNCHANGED <<op, brutal_mode, target, returned, files_scanned, calls, total_deductions>>
    /\ UNCHANGED legacy_vars

\* scanner.scan_file(f, brutal) on a new scanner
ScanFile ==
    /\ op = "new"
    /\ \E f \in Files, brutal \in BOOLEAN :
          /\ brutal_mode' = brutal
          /\ target' = f
          /\ returned' = scan_file(ignore_rules, f, brutal)
          /\ files_scanned' = files_scanned + (IF reads_content(f) THEN 1 ELSE 0)
    /\ op' = "scan_file"
    /\ calls' = calls + 1
    /\ UNCHANGED <<ignore_rules, total_deductions>>
    /\ UNCHANGED legacy_vars

\* scanner.scan_directory(tree, brutal) on a new scanner
ScanDirectory ==
    /\ op = "new"
    /\ \E tree \in Trees, brutal \in BOOLEAN :
          LET res == scan_directory(ignore_rules, tree, brutal)
          IN  /\ brutal_mode' = brutal
              /\ target' = tree
              /\ returned' = res.violations
              /\ files_scanned' = res.files_scanned
    /\ op' = "scan_directory"
    /\ calls' = calls + 1
    /\ UNCHANGED <<ignore_rules, total_deductions>>
    /\ UNCHANGED legacy_vars

\* The same scan_file call once more on the same scanner.
ScanFileAgain ==
    /\ op = "scan_file"
    /\ calls < MaxCalls
    /\ returned' = scan_file(ignore_rules, target, brutal_mode)
    /\ files_scanned' = files_scanned + (IF reads_content(target) THEN 1 ELSE 0)
    /\ calls' = calls + 1
    /\ UNCHANGED <<ignore_rules, op, brutal_mode, target, total_deductions>>
    /\ UNCHANGED legacy_vars

\* A second scan_directory call that starts from what the first one left in
\* self.violations and self.files_scanned.
ScanDirectoryAgainKeeping ==
    /\ op = "scan_directory"
    /\ calls < MaxCalls
    /\ LET res == walk(ignore_rules, target, brutal_mode,
                       [violations |-> returned, files_scanned |-> files_scanned])
       IN  /\ returned' = res.violations
           /\ files_scanned' = res.files_scanned
    /\ calls' = calls + 1
    /\ UNCHANGED <<ignore_rules, op, brutal_mode, target, total_deductions>>
    /\ UNCHANGED legacy_vars

\* The same scan_directory call once more on the same scanner.
ScanDirectoryAgain ==
    /\ op = "scan_directory"
    /\ calls < MaxCalls
    /\ LET res == scan_directory(ignore_rules, target, brutal_mode)
       IN  /\ returned' = res.violations
           /\ files_scanned' = res.files_scanned
    /\ calls' = calls + 1
    /\ UNCHANGED <<ignore_rules, op, brutal_mode, target, total_deductions>>
    /\ UNCHANGED legacy_vars

\* ------------------------------------------------------------------ vibeguard_legacy.py
LEGACY_IGNORE_DIRS ==
    {".git/", ".github/", "node_modules/", "dist/", "build/", "venv/", "__pycache__/",
     ".venv/", "vendor/"}

\* Whether the os.walk of run_scan reaches the file (EXCLUDE_PATTERNS is empty).
legacy_walked(f) == f.path.dir \notin LEGACY_IGNORE_DIRS

\* One finding of run_scan: what is subtracted from score, the violation
\* appended, and whether sys.exit(1) follows.
Finding(penalty, v, exits) == [penalty |-> penalty, v |-> v, exits |-> exits]

RECURSIVE SumPenalties(_)
SumPenalties(fs) == IF fs = <<>> THEN 0 ELSE Head(fs).penalty + SumPenalties(Tail(fs))

\* A run_scan without the early exit.
fail_fast_never(rule, brutal) == FALSE

\* INPUT_BRUTAL_MODE and r.get('critical', False)
fail_fast(rule, brutal) == brutal /\ rule.critical

\* r['weight'] * (2 if INPUT_BRUTAL_MODE else 1)
legacy_penalty(rule, brutal) == rule.weight * (IF brutal THEN 2 ELSE 1)

\* for r in RULES: if r['id'] in IGNORE_RULES: continue; if r['type'] == t
legacy_rules(ignored, rule_type) ==
    SelectSeq(rules, LAMBDA r : r.id \notin ignored /\ r.type = rule_type)

\* The filename rules of run_scan: after the violation and the critical
\* check, the weight is subtracted and a violation appended once more.
legacy_filename_rules(ignored, f, brutal) ==
    LET rs == legacy_rules(ignored, "filename")
    IN  Concat([j \in 1..Len(rs) |->
                  IF search_name(rs[j].pattern, f.path)
                  THEN <<Finding(legacy_penalty(rs[j], brutal),
                                 Violation(f.path, rs[j].id, PlainName(rs[j].name),
                                           legacy_penalty(rs[j], brutal), rs[j].desc, NoLine),
                                 fail_fast(rs[j], brutal)),
                         Finding(rs[j].weight,
                                 Violation(f.path, rs[j].id, PlainName(rs[j].name),
                                           rs[j].weight, rs[j].desc, NoLine),
                                 FALSE)>>
                  ELSE <<>>])

\* The path rules of run_scan.
legacy_path_rules(ignored, f, brutal) ==
    LET rs == legacy_rules(ignored, "path")
    IN  Concat([j \in 1..Len(rs) |->
                  IF search_name(rs[j].pattern, f.path)
                  THEN <<Finding(legacy_penalty(rs[j], brutal),
                                 Violation(f.path, rs[j].id, PlainName(rs[j].name),
                                           legacy_penalty(rs[j], brutal), rs[j].desc, NoLine),
                                 fail_fast(rs[j], brutal))>>
                  ELSE <<>>])

\* check_python_ast_violations of vibeguard_legacy.py and the loop of
\* run_scan over what it returns: no ignore directive is looked at, and
\* 'test' is searched in the path as it is written.
legacy_ast_call(ignored, f, brutal, callee, line_num) ==
    LET rule_id == IF callee = EVAL THEN "SEC06" ELSE "HYG02"
        found   == SelectSeq(rules, LAMBDA r : r.id = rule_id)
        fires   == \/ callee = EVAL
                   \/ callee = PRINTC /\ ~ContainsTest(f.path)
    IN  IF fires /\ found # <<>> /\ rule_id \notin ignored
        THEN <<Finding(legacy_penalty(Head(found), brutal),
                       Violation(f.path, rule_id, PlainName(Head(found).name),
                                 legacy_penalty(Head(found), brutal),
                                 IF callee = EVAL THEN "Real eval() call detected via AST"
                                                  ELSE "Print statement in production code",
                                 line_num),
                       FALSE)>>
        ELSE <<>>

legacy_ast(ignored, f, brutal) ==
    IF ~Parses(f) THEN <<>>
    ELSE Concat([i \in 1..Len(f.lines) |->
                   LET code == CodeRegion(f.lines[i])
                   IN  Concat([k \in 1..Len(code) |->
                                 IF code[k] \in {EVAL, PRINTC}
                                 THEN legacy_ast_call(ignored, f, brutal, code[k], i)
                                 ELSE <<>>])])

\* The line-count and the missing-trailing-newline rules of run_scan.
legacy_lines_rules(ignored, f, brutal) ==
    LET rs == legacy_rules(ignored, "lines")
    IN  Concat([j \in 1..Len(rs) |->
                  IF NumLines(f) > rs[j].max
                  THEN <<Finding(legacy_penalty(rs[j], brutal),
                                 Violation(f.path, rs[j].id, CountedName(rs[j].name, NumLines(f)),
                                           legacy_penalty(rs[j], brutal), rs[j].desc, NoLine),
                                 FALSE)>>
                  ELSE <<>>])

legacy_eof_rules(ignored, f, brutal) ==
    LET rs == legacy_rules(ignored, "eof")
    IN  Concat([j \in 1..Len(rs) |->
                  IF NumLines(f) > 0 /\ ~f.eofnl
                  THEN <<Finding(legacy_penalty(rs[j], brutal),
                                 Violation(f.path, rs[j].id, PlainName(rs[j].name),
                                           legacy_penalty(rs[j], brutal), rs[j].desc, NoLine),
                                 FALSE)>>
                  ELSE <<>>])

\* The content-pattern rules of run_scan: the comment filter, no ignore
\* directive, and the critical check after each violation.
legacy_regex_rules(ignored, f, brutal) ==
    LET rs == legacy_rules(ignored, "regex")
    IN  Concat([j \in 1..Len(rs) |->
                  LET matches == Take(finditer(rs[j].pattern, f), MatchCap)
                  IN  Concat([m \in 1..Len(matches) |->
                                IF /\ is_comment_line(LineAt(f, matches[m]), f.path.ext)
                                   /\ ~comment_tolerant(rs[j].id)
                                THEN <<>>
                                ELSE <<Finding(legacy_penalty(rs[j], brutal),
                                               Violation(f.path, rs[j].id, PlainName(rs[j].name),
                                                         legacy_penalty(rs[j], brutal),
                                                         rs[j].desc, matches[m]),
                                               fail_fast(rs[j], brutal))>>])])

\* The findings of run_scan on one file, in the order it makes them, were
\* none of them to end the run.
legacy_file_findings(ignored, f, brutal) ==
    legacy_filename_rules(ignored, f, brutal)
    \o legacy_path_rules(ignored, f, brutal)
    \o (IF reads_content(f)
        THEN (IF f.path.ext = ".py" THEN legacy_ast(ignored, f, brutal) ELSE <<>>)
             \o legacy_lines_rules(ignored, f, brutal)
             \o legacy_eof_rules(ignored, f, brutal)
             \o legacy_regex_rules(ignored, f, brutal)
        ELSE <<>>)

\* ------------------------------------------------------------------ audit_git_history
\* One line of the git log output, split at '|': the hash, the day and the
\* hour of the date, the subject as a sequence of words, and what
\* git diff-tree does for the commit ("ok", "error" or "timeout") with the
\* number of files it lists.
Commit(hash, day, hour, message, stat, files) ==
    [hash |-> hash, day |-> day, hour |-> hour, message |-> message,
     stat |-> stat, files |-> files]

\* The checkout: whether .git is a directory, what git log does ("ok",
\* "error", "timeout" or "missing" when there is no git), and the commits,
\* the latest first.
History(git_dir, log, commits) == [git_dir |-> git_dir, log |-> log, commits |-> commits]

DQ_REVERT == "\"Revert"

\* str.lower on one word
lower_word(t) ==
    CASE t = "WIP"      -> "wip"
      [] t = "Fix"      -> "fix"
      [] t = "ABC-123:" -> "abc-123:"
      [] t = "Revert"   -> "revert"
      [] t = DQ_REVERT  -> "\"revert"
      [] OTHER          -> t

\* parts[3].lower()
lower(message) == [k \in 1..Len(message) |-> lower_word(message[k])]

\* re.match(pattern, message, re.IGNORECASE) for one of lazy_patterns: the
\* patterns are anchored at both ends and match no space.
lazy_patterns ==
    << {"wip", "fix", "test", "asdasd", "asd", "tmp", "temp", "debug", "update", "changes"},
       {"merge", "rebase", "commit", "push"},
       {"."},
       {"1", "42"} >>

\* re.search in the place of re.match, the patterns without their anchors
lazy_anywhere(message) ==
    \E k \in 1..Len(message), j \in 1..Len(lazy_patterns) :
        lower_word(message[k]) \in lazy_patterns[j]

lazy(message) ==
    /\ Len(message) = 1
    /\ \E j \in 1..Len(lazy_patterns) : lower_word(message[1]) \in lazy_patterns[j]

\* 'revert "revert' in message
revert_war(message) ==
    \E k \in 1..(Len(message) - 1) :
        message[k] = "revert" /\ message[k + 1] = "\"revert"

\* keyword in message, for one of unpro_keywords
unpro_keywords ==
    << <<"oops">>, <<"lol">>, <<"yolo">>, <<"fml">>, <<"wtf">>, <<"hope", "this", "works">>,
       <<"fingers", "crossed">>, <<"idk">> >>

occurs(keyword, message) ==
    \E k \in 0..(Len(message) - Len(keyword)) :
        \A j \in 1..Len(keyword) : message[k + j] = keyword[j]

unprofessional(message) ==
    \E j \in 1..Len(unpro_keywords) : occurs(unpro_keywords[j], message)

\* The keywords of the GIT03 loop that are reported, were the loop to go on
\* after a keyword is found.
reported_keywords_no_break(message) ==
    SelectSeq(unpro_keywords, LAMBDA keyword : occurs(keyword, message))

\* The keywords of the GIT03 loop that are reported: the first one found, at
\* which the loop breaks.
reported_keywords(message) ==
    IF unprofessional(message)
    THEN <<Head(SelectSeq(unpro_keywords, LAMBDA keyword : occurs(keyword, message)))>>
    ELSE <<>>

\* re.search(r'[A-Z]+-[0-9]+', message)
has_ticket(message) == \E k \in 1..Len(message) : message[k] = "ABC-123:"

CommitLoc(hash) == Path("commit ", hash, "")

git_penalty(base, brutal) == base * (IF brutal THEN 2 ELSE 1)

\* git_deductions += penalty, and the violation appended with it
GitFinding(c, rule_id, rule_name, base, brutal, desc) ==
    Finding(git_penalty(base, brutal),
            Violation(CommitLoc(c.hash), rule_id, PlainName(rule_name),
                      git_penalty(base, brutal), desc, NoLine),
            FALSE)

\* The body of the first loop for one commit.
commit_rules(c, brutal) ==
    LET message == lower(c.message)
    IN  (IF lazy(message)
         THEN <<GitFinding(c, "GIT01", "Lazy Commit Message", 15, brutal,
                             "provides zero context")>>
         ELSE <<>>)
        \o (IF revert_war(message)
            THEN <<GitFinding(c, "GIT02", "Revert War", 30, brutal,
                                "Reverting a revert indicates chaos")>>
            ELSE <<>>)
        \o Concat([j \in 1..Len(reported_keywords(message)) |->
                      <<GitFinding(c, "GIT03", "Unprofessional Commit", 10, brutal,
                                   "Contains keyword")>>])
        \o (IF c.day = "Fri" /\ c.hour >= 16
            THEN <<GitFinding(c, "GIT05", "Friday Deploy", 50, brutal,
                                "Committed on Friday")>>
            ELSE <<>>)
        \o (IF 0 <= c.hour /\ c.hour < 6
            THEN <<GitFinding(c, "GIT06", "3AM Commit", 20, brutal,
                                "Committed at ungodly hours")>>
            ELSE <<>>)
        \o (IF ~has_ticket(message)
            THEN <<GitFinding(c, "GIT07", "Missing Ticket ID", 12, brutal,
                                "No issue reference (PROJ-123)")>>
            ELSE <<>>)

\* len(stat_result.stdout.strip().split('\n'))
file_count(c) == IF c.files = 0 THEN 1 ELSE c.files

\* not commits or commits[0] == '', without the test of len(commits)
insufficient_when_empty(commits) == Len(commits) = 0

\* not commits or len(commits) <= 1 or commits[0] == ''
insufficient(commits) == Len(commits) <= 1

\* commits with nothing cut off.
every_commit(commits) == commits

\* commits[:10]
recent(commits) == Take(commits, 10)

\* The second loop, over commits[:10]: what was found, the commits git
\* diff-tree was run for, and whether it timed out, which ends the audit
\* with what was gathered until then.
RECURSIVE monster_commits(_, _, _)
monster_commits(commits, brutal, acc) ==
    IF commits = <<>> THEN acc
    ELSE LET c == Head(commits)
             looked == Append(acc.lookups, c.hash)
         IN  IF c.stat = "timeout"
             THEN [acc EXCEPT !.lookups = looked, !.timed_out = TRUE]
             ELSE monster_commits(
                    Tail(commits), brutal,
                    [acc EXCEPT
                       !.lookups = looked,
                       !.found = IF c.stat = "ok" /\ file_count(c) > 50
                                 THEN Append(@, GitFinding(c, "GIT04", "Monster Commit", 40, brutal,
                                                           "files changed in single commit"))
                                 ELSE @])

\* audit_git_history: (git_deductions, git_violations), the warning printed
\* for an audit that was skipped or cut short, and the commits whose
\* changed files were looked up.
audit_git_history(h, brutal) ==
    LET commits == Take(h.commits, 50)
        skip(warning) ==
            [deductions |-> 0, violations |-> <<>>, warning |-> warning, lookups |-> <<>>]
        res == monster_commits(
                 recent(commits), brutal,
                 [found |-> Concat([k \in 1..Len(commits) |-> commit_rules(commits[k], brutal)]),
                  lookups |-> <<>>, timed_out |-> FALSE])
    IN  IF ~h.git_dir THEN skip("no .git directory found")
        ELSE IF h.log = "missing" THEN skip("Git not found")
        ELSE IF h.log = "timeout" THEN skip("timed out")
        ELSE IF h.log # "ok" THEN skip("git log failed")
        ELSE IF insufficient(commits) THEN skip("insufficient commit history")
        ELSE [deductions |-> SumPenalties(res.found),
              violations |-> [k \in 1..Len(res.found) |-> res.found[k].v],
              warning    |-> IF res.timed_out THEN "timed out" ELSE "none",
              lookups    |-> res.lookups]

\* ------------------------------------------------------------------ GitScanner
\* Commits that differ in one field from a commit no rule but GIT07 fires on.
Hashes ==
    << "c000001", "c000002", "c000003", "c000004", "c000005", "c000006",
       "c000007", "c000008", "c000009", "c000010", "c000011", "c000012" >>

Dull(n) == Commit(Hashes[n], "Wed", 12, <<"add", "retry", "to", "fetch">>, "ok", 1)

Histories ==
    LET wip    == Commit("a1b2c3d", "Fri", 18, <<"WIP">>, "ok", 51)
        ticket == Commit("e4f5a6b", "Mon", 3, <<"ABC-123:", "fix", "oops">>, "ok", 0)
        revert == Commit("c7d8e9f", "Tue", 10, <<"Revert", DQ_REVERT, "x">>, "timeout", 60)
        big    == Commit("0a1b2c3", "Fri", 9, <<"fingers", "crossed", "lol">>, "error", 60)
        long   == [n \in 1..Len(Hashes) |->
                     CASE n = 2  -> [Dull(n) EXCEPT !.day = "Fri", !.hour = 16, !.files = 50]
                       [] n = 3  -> [Dull(n) EXCEPT !.day = "Fri", !.hour = 15, !.files = 51]
                       [] n = 4  -> [Dull(n) EXCEPT !.day = "Sat", !.hour = 23]
                       [] n = 5  -> [Dull(n) EXCEPT !.message = <<"Fix">>]
                       [] n = 10 -> [Dull(n) EXCEPT !.files = 51, !.stat = "error"]
                       [] n = 11 -> [Dull(n) EXCEPT !.files = 51]
                       [] n = 12 -> [Dull(n) EXCEPT !.files = 51, !.stat = "timeout"]
                       [] OTHER  -> Dull(n)]
    IN  { History(FALSE, "ok", <<wip, ticket>>),
          History(TRUE, "missing", <<wip, ticket>>),
          History(TRUE, "timeout", <<wip, ticket>>),
          History(TRUE, "ok", <<>>),
          History(TRUE, "ok", <<wip>>),
          History(TRUE, "ok", <<wip, ticket>>),
          History(TRUE, "ok", <<big, wip, revert, ticket>>),
          History(TRUE, "ok", long) }

CommitLimits == {50, 1}

\* One rule of _analyze_commits that fired: the rule looked up in the
\* catalog, the penalty added to total_deductions and the violation appended.
git_rule_fired(ignored, c, brutal, rule_id, desc) ==
    LET rule == get_rule_by_id(ignored, rule_id)
    IN  IF rule # NoRule
        THEN <<Finding(calculate_penalty(rule, brutal),
                       Violation(CommitLoc(c.hash), rule.id, PlainName(rule.name),
                                 calculate_penalty(rule, brutal), desc, NoLine),
                       FALSE)>>
        ELSE <<>>

\* The body of the loop of GitScanner._analyze_commits for one commit.
analyze_commit(ignored, c, brutal) ==
    LET message == lower(c.message)
    IN  (IF lazy(message)
         THEN git_rule_fired(ignored, c, brutal, "GIT01", "provides zero context")
         ELSE <<>>)
        \o (IF revert_war(message)
            THEN git_rule_fired(ignored, c, brutal, "GIT02", "Reverting a revert indicates chaos")
            ELSE <<>>)
        \o Concat([j \in 1..Len(reported_keywords(message)) |->
                      git_rule_fired(ignored, c, brutal, "GIT03", "Contains keyword")])

\* GitScanner._analyze_commits
analyze_commits(ignored, commits, brutal) ==
    LET found == Concat([k \in 1..Len(commits) |-> analyze_commit(ignored, commits[k], brutal)])
    IN  [deductions |-> SumPenalties(found),
         violations |-> [k \in 1..Len(found) |-> found[k].v]]

\* GitScanner.scan_history: (total_deductions, violations), and the warning
\* it hands to its logger.
scan_history(ignored, h, brutal, commit_limit) ==
    LET commits == Take(h.commits, commit_limit)
        skip(warning) == [deductions |-> 0, violations |-> <<>>, warning |-> warning]
    IN  IF ~h.git_dir THEN skip("no .git directory found")
        ELSE IF h.log = "missing" THEN skip("Git not found")
        ELSE IF h.log = "timeout" THEN skip("timed out")
        ELSE IF h.log # "ok" THEN skip("git log failed")
        ELSE IF insufficient(commits) THEN skip("insufficient commit history")
        ELSE [deductions |-> analyze_commits(ignored, commits, brutal).deductions,
              violations |-> analyze_commits(ignored, commits, brutal).violations,
              warning    |-> "none"]

\* git_scanner.scan_history(brutal, commit_limit) in a checkout
ScanHistory ==
    /\ op = "new"
    /\ \E h \in Histories, brutal \in BOOLEAN, commit_limit \in CommitLimits :
          LET res == scan_history(ignore_rules, h, brutal, commit_limit)
          IN  /\ brutal_mode' = brutal
              /\ target' = [history |-> h, commit_limit |-> commit_limit]
              /\ returned' = res.violations
              /\ total_deductions' = res.deductions
    /\ op' = "scan_history"
    /\ calls' = calls + 1
    /\ UNCHANGED <<ignore_rules, files_scanned>>
    /\ UNCHANGED legacy_vars

\* The same scan_history call once more on the same scanner and checkout.
ScanHistoryAgain ==
    /\ op = "scan_history"
    /\ calls < MaxCalls
    /\ LET res == scan_history(ignore_rules, target.history, brutal_mode, target.commit_limit)
       IN  /\ returned' = res.violations
           /\ total_deductions' = res.deductions
    /\ calls' = calls + 1
    /\ UNCHANGED <<ignore_rules, op, brutal_mode, target, files_scanned>>
    /\ UNCHANGED legacy_vars

Next ==
    \/ LoadConfig
    \/ ScanFile
    \/ ScanDirectory
    \/ ScanFileAgain
    \/ ScanDirectoryAgain
    \/ ScanHistory
    \/ ScanHistoryAgain

Spec == Init /\ [][Next]_vars

\* ------------------------------------------------------------------ run_scan and main
LegacyFiles ==
    { File(AppPy, <<<<EVAL>>, <<PRINTC>>>>, 0, TRUE, TRUE),
      File(Path("", "main", ".py"), <<<<AISTR>>, <<HASH, EVAL, EVAL>>>>, 0, TRUE, TRUE),
      File(Path("", ".env", ""), <<>>, 0, TRUE, TRUE),
      File(Path("", "test_app", ".py"), <<<<PRINTC>>>>, 0, FALSE, TRUE),
      File(Path("node_modules/", "app", ".py"), <<<<EVAL>>>>, 0, TRUE, TRUE),
      File(Path(".vscode/", "app", ".py"), <<<<EVAL>>>>, 0, TRUE, FALSE),
      File(Path("", "slop", ".md"), <<<<AISTR>>, <<AISTR>>, <<AISTR>>>>, 0, TRUE, TRUE),
      File(Path("", "server", ".pem"), <<>>, 0, TRUE, TRUE) }

LegacyTrees ==
    {t \in SeqsUpTo(LegacyFiles, MaxFiles) :
        \A i, j \in 1..Len(t) : i # j => t[i].path # t[j].path}

Thresholds == {800, 0}

\* The scanner of src/scanner.py, constructed and not used.
ScannerNew ==
    /\ ignore_rules = {}
    /\ op = "new"
    /\ brutal_mode = FALSE
    /\ target = NoTarget
    /\ returned = <<>>
    /\ files_scanned = 0
    /\ calls = 0
    /\ total_deductions = 0

\* The start of run_scan under the environment of one run.
LegacyInit ==
    /\ ScannerNew
    /\ INPUT_BRUTAL_MODE \in BOOLEAN
    /\ INPUT_THRESHOLD \in Thresholds
    /\ IGNORE_RULES \in IgnoreSets
    /\ work_tree \in LegacyTrees
    /\ history \in Histories
    /\ pc = "scan"
    /\ file_no = 1
    /\ step_no = 1
    /\ score = STARTING_SCORE
    /\ violations = <<>>
    /\ audited = FALSE
    /\ exit_code = -1

\* What run_scan finds in the file it is at.
CurrentFindings ==
    IF legacy_walked(work_tree[file_no])
    THEN legacy_file_findings(IGNORE_RULES, work_tree[file_no], INPUT_BRUTAL_MODE)
    ELSE <<>>

\* score -= penalty; violations.append(...), with the floor that run_scan
\* does not have.
LegacyEmitFloored ==
    /\ pc = "scan"
    /\ file_no <= Len(work_tree)
    /\ step_no <= Len(CurrentFindings)
    /\ LET found == CurrentFindings[step_no]
       IN  /\ score' = (IF score - found.penalty < 0 THEN 0 ELSE score - found.penalty)
           /\ violations' = Append(violations, found.v)
           /\ IF found.exits
              THEN pc' = "exited" /\ exit_code' = 1 /\ step_no' = step_no
              ELSE pc' = pc /\ exit_code' = exit_code /\ step_no' = step_no + 1
    /\ UNCHANGED <<INPUT_BRUTAL_MODE, INPUT_THRESHOLD, IGNORE_RULES, work_tree, history,
                   file_no, audited>>
    /\ UNCHANGED scanner_vars

\* score -= penalty; violations.append(...); and sys.exit(1) for a critical
\* rule in brutal mode.
LegacyEmit ==
    /\ pc = "scan"
    /\ file_no <= Len(work_tree)
    /\ \E findings \in {CurrentFindings} :
          /\ step_no <= Len(findings)
          /\ \E found \in {findings[step_no]} :
                /\ score' = score - found.penalty
                /\ violations' = Append(violations, found.v)
                /\ IF found.exits
                   THEN pc' = "exited" /\ exit_code' = 1 /\ step_no' = step_no
                   ELSE pc' = pc /\ exit_code' = exit_code /\ step_no' = step_no + 1
    /\ UNCHANGED <<INPUT_BRUTAL_MODE, INPUT_THRESHOLD, IGNORE_RULES, work_tree, history,
                   file_no, audited>>
    /\ UNCHANGED scanner_vars

\* The walk goes on to the next file.
LegacyNextFile ==
    /\ pc = "scan"
    /\ file_no <= Len(work_tree)
    /\ step_no > Len(CurrentFindings)
    /\ file_no' = file_no + 1
    /\ step_no' = 1
    /\ UNCHANGED <<INPUT_BRUTAL_MODE, INPUT_THRESHOLD, IGNORE_RULES, work_tree, history,
                   pc, score, violations, audited, exit_code>>
    /\ UNCHANGED scanner_vars

\* After the walk: the history audit, and run_scan returns.
LegacyAudit ==
    /\ pc = "scan"
    /\ file_no > Len(work_tree)
    /\ LET git == audit_git_history(history, INPUT_BRUTAL_MODE)
       IN  /\ score' = score - git.deductions
           /\ violations' = violations \o git.violations
    /\ audited' = TRUE
    /\ pc' = "scanned"
    /\ UNCHANGED <<INPUT_BRUTAL_MODE, INPUT_THRESHOLD, IGNORE_RULES, work_tree, history,
                   file_no, step_no, exit_code>>
    /\ UNCHANGED scanner_vars

\* main: the exit code from the score and the threshold.
LegacyMain ==
    /\ pc = "scanned"
    /\ exit_code' = (IF score < INPUT_THRESHOLD THEN 1 ELSE 0)
    /\ pc' = "exited"
    /\ UNCHANGED <<INPUT_BRUTAL_MODE, INPUT_THRESHOLD, IGNORE_RULES, work_tree, history,
                   file_no, step_no, score, violations, audited>>
    /\ UNCHANGED scanner_vars

LegacyNext == LegacyEmit \/ LegacyNextFile \/ LegacyAudit \/ LegacyMain

LegacySpec == LegacyInit /\ [][LegacyNext]_vars

\* ------------------------------------------------------------------ one file
\* scan_file, and run_scan in a tree of one file and no repository, over
\* files chosen at the start.
ProbePyLines ==
    { <<EVAL>>, <<PRINTC>>, <<>>, <<HASH, EVAL, EVAL>>, <<EVAL, HASH, MARK1>>, <<SLASH2, EVAL>> }

ProbeJsLines ==
    { <<EVAL>>, <<SLASH2, EVAL, EVAL>>, <<EVAL, SLASH2, MARK2>>, <<SLASH2, WS, TODO>> }

ProbePaths == OtherPaths \cup {AppPy, Path("TESTS/", "app", ".py")}

PathFiles ==
    {f \in {File(p, ls, 0, nl, rd) :
              p \in ProbePaths, ls \in ShortTexts, nl \in BOOLEAN, rd \in BOOLEAN} : WellFormed(f)}

ProbeFiles ==
    {File(AppPy, ls, 0, TRUE, TRUE) : ls \in SeqsUpTo(ProbePyLines, MaxLines)}
    \cup {File(Path("", "app", ".js"), ls, 0, TRUE, TRUE) : ls \in SeqsUpTo(ProbeJsLines, MaxLines)}
    \cup {File(Path("", "notes", ".md"), ls, 0, TRUE, TRUE) : ls \in SeqsUpTo(MdLines, MaxLines)}
    \cup PathFiles
    \cup {f \in {File(AppPy, ls, pd, nl, TRUE) :
                   ls \in ShortTexts, pd \in {1998, 1999, 2000}, nl \in BOOLEAN} : WellFormed(f)}

\* A scanner with its configuration loaded, and the file it is to scan.
ProbeIgnoreSets == IgnoreSets \cup { {"MNT01", "VCS07"} }

FileInit ==
    /\ ignore_rules \in ProbeIgnoreSets
    /\ op = "new"
    /\ brutal_mode \in BOOLEAN
    /\ target \in ProbeFiles
    /\ returned = <<>>
    /\ files_scanned = 0
    /\ calls = 0
    /\ total_deductions = 0
    /\ LegacyOff

\* scanner.scan_file(target, brutal_mode)
ScanOneFile ==
    /\ op = "new"
    /\ returned' = scan_file(ignore_rules, target, brutal_mode)
    /\ files_scanned' = files_scanned + (IF reads_content(target) THEN 1 ELSE 0)
    /\ op' = "scan_file"
    /\ calls' = calls + 1
    /\ UNCHANGED <<ignore_rules, brutal_mode, target, total_deductions>>
    /\ UNCHANGED legacy_vars

FileNext == ScanOneFile

FileSpec == FileInit /\ [][FileNext]_vars

\* The file that follows the chosen one in the walk, when one does.
NextFile == File(Path("", "main", ".py"), <<<<EVAL>>>>, 0, TRUE, TRUE)

\* The start of run_scan in a directory that holds one file, or that file
\* and main.py after it, and no .git.
LegacyFileInit ==
    /\ ScannerNew
    /\ INPUT_BRUTAL_MODE \in BOOLEAN
    /\ INPUT_THRESHOLD = 800
    /\ IGNORE_RULES \in IgnoreSets
    /\ work_tree \in {<<f>> : f \in PathFiles} \cup {<<f, NextFile>> : f \in PathFiles}
    /\ history = History(FALSE, "ok", <<>>)
    /\ pc = "scan"
    /\ file_no = 1
    /\ step_no = 1
    /\ score = STARTING_SCORE
    /\ violations = <<>>
    /\ audited = FALSE
    /\ exit_code = -1

LegacyFileSpec == LegacyFileInit /\ [][LegacyNext]_vars

\* ------------------------------------------------------------------ claims
HasMarker(line) == HasToken(line, MARK1) \/ HasToken(line, MARK2)

CountId(vs, id) == Cardinality({i \in 1..Len(vs) : vs[i].rule_id = id})

NotSuppressed(vs, ign) == SelectSeq(vs, LAMBDA v : v.rule_id \notin ign)

Emitted(vs, id, n) == \E i \in 1..Len(vs) : vs[i].rule_id = id /\ vs[i].line = n

\* The matches of a rule that the loop of scan_file looks at.
Examined(rule, f) == Take(finditer(rule.pattern, f), MatchCap)

ActiveRegex == get_rules_by_type(ignore_rules, "regex")

\* The number of direct eval(...) calls in the code of the file.
EvalCalls(f) ==
    Len(Concat([i \in 1..Len(f.lines) |->
                  SelectSeq(CodeRegion(f.lines[i]), LAMBDA t : t = EVAL)]))

\* C1: no rule id of the ignored set is among the active rules or among the
\* violations a scan returns, and the violations of the other rule ids are
\* those of the same scan with nothing ignored.
C1_SuppressionRemovesRule ==
    /\ \A i \in 1..Len(get_active_rules(ignore_rules)) :
          get_active_rules(ignore_rules)[i].id \notin ignore_rules
    /\ op = "scan_file" =>
          /\ \A i \in 1..Len(returned) : returned[i].rule_id \notin ignore_rules
          /\ NotSuppressed(returned, ignore_rules)
                = NotSuppressed(scan_file({}, target, brutal_mode), ignore_rules)
    /\ op = "scan_directory" =>
          /\ \A i \in 1..Len(returned) : returned[i].rule_id \notin ignore_rules
          /\ NotSuppressed(returned, ignore_rules)
                = NotSuppressed(scan_directory({}, target, brutal_mode).violations, ignore_rules)

\* C2: scan_file returns at most 3 violations of any one rule id for a file.
C2_AtMostThreePerRule ==
    op = "scan_file" => \A id \in RuleIds : CountId(returned, id) <= MatchCap

\* C3: a parseable .py file with exactly one direct eval(...) call, on a line
\* that is no comment, with no ignore marker on that line or the next, yields
\* exactly one SEC06 violation.
C3_Case ==
    /\ op = "scan_file"
    /\ target.path.ext = ".py" /\ target.readable /\ Parses(target)
    /\ "SEC06" \notin ignore_rules
    /\ EvalCalls(target) = 1
    /\ \A i \in 1..Len(target.lines) :
          HasToken(CodeRegion(target.lines[i]), EVAL) =>
             /\ ~is_comment_line(target.lines[i], ".py")
             /\ ~HasMarker(target.lines[i])
             /\ ~HasMarker(LineAt(target, i + 1))

C3_OneEvalOneViolation == C3_Case => CountId(returned, "SEC06") = 1

\* C4: scanning a directory whose only file is a non-test .py file made of an
\* eval(...) line followed by a print(...) line yields exactly 2 violations,
\* and the score is 1000 minus the two weights (twice that in brutal mode).
C4_Case ==
    /\ op = "scan_directory"
    /\ target = <<File(AppPy, <<<<EVAL>>, <<PRINTC>>>>, 0, TRUE, TRUE)>>
    /\ ignore_rules = {}

C4_EvalThenDebugOutputIsTwo ==
    C4_Case =>
       /\ Len(returned) = 2
       /\ STARTING_SCORE - SumDeductions(returned)
             = STARTING_SCORE
                 - (get_rule_by_id({}, "SEC06").weight + get_rule_by_id({}, "HYG02").weight)
                   * (IF brutal_mode THEN 2 ELSE 1)

\* C5: no violation that scan_file returns is anchored at a line that holds
\* the ignore marker, in either spelling, whatever its rule id.
C5_MarkedLineNeverEmitted ==
    op = "scan_file" =>
       \A i \in 1..Len(returned) :
          returned[i].line # NoLine => ~HasMarker(LineAt(target, returned[i].line))

\* A scanned file where a match that the loop looks at is anchored at a line
\* with the marker, for a comment-tolerant rule and for another rule, and
\* where an eval(...) call that the syntax tree holds is on such a line.
C5_Witness ==
    /\ op = "scan_file" /\ reads_content(target)
    /\ target.path.ext = ".py" /\ Parses(target) /\ ignore_rules = {}
    /\ \E i \in 1..Len(target.lines) :
          HasToken(CodeRegion(target.lines[i]), EVAL) /\ HasMarker(target.lines[i])
    /\ \E j \in 1..Len(ActiveRegex) :
          /\ comment_tolerant(ActiveRegex[j].id)
          /\ \E m \in 1..Len(Examined(ActiveRegex[j], target)) :
                HasToken(LineAt(target, Examined(ActiveRegex[j], target)[m]), MARK2)
    /\ \E j \in 1..Len(ActiveRegex) :
          /\ ~comment_tolerant(ActiveRegex[j].id)
          /\ \E m \in 1..Len(Examined(ActiveRegex[j], target)) :
                HasToken(LineAt(target, Examined(ActiveRegex[j], target)[m]), MARK1)

\* C6: no violation is anchored at a line k whose line k-1 holds the ignore
\* marker (a marker on the line above the flagged code suppresses it).
C6_MarkerAboveSuppresses ==
    op = "scan_file" =>
       \A i \in 1..Len(returned) :
          returned[i].line > 1 => ~HasMarker(LineAt(target, returned[i].line - 1))

\* C7: of the matches the loop of scan_file looks at, one anchored at a line
\* that is_comment_line classifies as a comment, with no ignore directive on
\* it or the next line, is emitted exactly when the rule id starts with DOC,
\* STB03, STB04 or STB05.
C7_CommentLineFilter ==
    (op = "scan_file" /\ reads_content(target)) =>
       \A j \in 1..Len(ActiveRegex) :
          \A m \in 1..Len(Examined(ActiveRegex[j], target)) :
             LET n == Examined(ActiveRegex[j], target)[m]
             IN  (/\ is_comment_line(LineAt(target, n), target.path.ext)
                  /\ ~has_ignore_comment(LineAt(target, n), LineAt(target, n + 1)))
                 => (Emitted(returned, ActiveRegex[j].id, n)
                        <=> comment_tolerant(ActiveRegex[j].id))

\* A scanned file with a comment-line match of a tolerant rule that is
\* emitted and a comment-line match of another rule that is not.
C7_Witness ==
    /\ op = "scan_file" /\ reads_content(target)
    /\ \E j \in 1..Len(ActiveRegex) :
          \E m \in 1..Len(Examined(ActiveRegex[j], target)) :
             LET n == Examined(ActiveRegex[j], target)[m]
             IN  /\ is_comment_line(LineAt(target, n), target.path.ext)
                 /\ comment_tolerant(ActiveRegex[j].id)
                 /\ Emitted(returned, ActiveRegex[j].id, n)
    /\ \E j \in 1..Len(ActiveRegex) :
          \E m \in 1..Len(Examined(ActiveRegex[j], target)) :
             LET n == Examined(ActiveRegex[j], target)[m]
             IN  /\ is_comment_line(LineAt(target, n), target.path.ext)
                 /\ ~has_ignore_comment(LineAt(target, n), LineAt(target, n + 1))
                 /\ ~comment_tolerant(ActiveRegex[j].id)
                 /\ ~Emitted(returned, ActiveRegex[j].id, n)

IsCritical(rule_id) == \E j \in 1..Len(rules) : rules[j].id = rule_id /\ rules[j].critical

CriticalFired(vs) == \E k \in 1..Len(vs) : IsCritical(vs[k].rule_id)

\* C8: in brutal mode the violation of a critical rule is the last one a scan
\* emits: none for a later rule, match or file follows it.
C8_CriticalStopsScan ==
    (op \in {"scan_file", "scan_directory"} /\ brutal_mode) =>
       \A k \in 1..Len(returned) : IsCritical(returned[k].rule_id) => k = Len(returned)

\* C9: a brutal-mode run in which a critical rule fired never exits with the
\* passed outcome, and when it has ended it has ended as failed, whatever
\* the score and the threshold.
C9_CriticalRunFails ==
    (INPUT_BRUTAL_MODE /\ CriticalFired(violations)) =>
       /\ exit_code # 0
       /\ pc # "scanned"
       /\ pc = "exited" => exit_code = 1

\* A brutal-mode run ended by a critical rule with the score still at or
\* above the threshold.
C9_Witness ==
    /\ INPUT_BRUTAL_MODE /\ CriticalFired(violations)
    /\ pc = "exited" /\ exit_code = 1
    /\ score >= INPUT_THRESHOLD

RuleOf(rule_id) == CHOOSE r \in {rules[j] : j \in 1..Len(rules)} : r.id = rule_id

\* C11: for every rule of the catalog the brutal-mode penalty is exactly
\* twice the standard one, and the standard one is the rule's weight; so the
\* violations of a file scanned in brutal mode carry twice the deductions of
\* the same scan in standard mode, which are the weights of their rules.
C11_BrutalPenaltyIsDouble ==
    /\ \A j \in 1..Len(rules) :
          /\ calculate_penalty(rules[j], TRUE) = 2 * calculate_penalty(rules[j], FALSE)
          /\ calculate_penalty(rules[j], FALSE) = rules[j].weight
    /\ op = "scan_file" =>
          LET hard == scan_file(ignore_rules, target, TRUE)
              soft == scan_file(ignore_rules, target, FALSE)
          IN  /\ Len(hard) = Len(soft)
              /\ \A k \in 1..Len(soft) :
                    /\ hard[k].deduction = 2 * soft[k].deduction
                    /\ soft[k].deduction = RuleOf(soft[k].rule_id).weight

\* A brutal-mode scan that returned a violation carrying the doubled penalty
\* of its rule.
C11_Witness ==
    /\ op = "scan_file" /\ brutal_mode
    /\ \E k \in 1..Len(returned) :
          /\ returned[k].deduction = calculate_penalty(RuleOf(returned[k].rule_id), TRUE)
          /\ returned[k].deduction = 2 * RuleOf(returned[k].rule_id).weight

\* C12: every violation of a run has a deduction equal to the weight of its
\* rule times 2 in brutal mode and times 1 otherwise, which is positive, and
\* each step lowers the score by the deductions of the violations it adds.
C12_DeductionIsWeightTimesMode ==
    /\ [](\A k \in 1..Len(violations) :
            /\ violations[k].deduction
                  = RuleOf(violations[k].rule_id).weight * (IF INPUT_BRUTAL_MODE THEN 2 ELSE 1)
            /\ violations[k].deduction > 0)
    /\ [][score - score'
            = SumDeductions(SubSeq(violations', Len(violations) + 1, Len(violations')))]_vars

\* C13: a second scan of the same tree, or of the same history, by the same
\* scanner with the same settings returns the list, the deductions and the
\* files-scanned count of the first: nothing of the first scan is added.
C13_RescanReturnsTheSame ==
    [][(op \in {"scan_directory", "scan_history"} /\ op' = op) =>
          /\ returned' = returned
          /\ files_scanned' = files_scanned
          /\ total_deductions' = total_deductions
          /\ STARTING_SCORE - SumDeductions(returned') = STARTING_SCORE - SumDeductions(returned)]_vars

\* A tree scanned a second time by the same scanner, with violations and
\* files read.
C13_Witness ==
    /\ op = "scan_directory" /\ calls = 2
    /\ Len(returned) > 0 /\ files_scanned > 0
    /\ returned = scan_directory(ignore_rules, target, brutal_mode).violations

\* The violations of the run reported for one commit under one rule id.
CommitHits(c, rule_id) ==
    {k \in 1..Len(violations) :
        violations[k].file = CommitLoc(c.hash) /\ violations[k].rule_id = rule_id}

\* The commits of the run's history that the audit classifies: none when the
\* audit is skipped.
AnalyzedCommits ==
    IF history.git_dir /\ history.log = "ok" /\ Len(history.commits) > 1
    THEN {history.commits[k] : k \in 1..Len(history.commits)}
    ELSE {}

\* C14: a commit whose message holds a ticket-style token, upper-case
\* letters, a hyphen and digits, gets no missing-issue-reference violation
\* (GIT07).
C14_TicketMeansNoMissingReference ==
    audited => \A c \in AnalyzedCommits : has_ticket(c.message) => CommitHits(c, "GIT07") = {}

LazyWords == UNION {lazy_patterns[j] : j \in 1..Len(lazy_patterns)}

\* C15: a commit whose whole message is, letter case aside, one of the lazy
\* patterns gets exactly one lazy-message violation (GIT01); a commit whose
\* message holds such a word among other words gets none.
C15_LazyMessageOnce ==
    audited =>
        \A c \in AnalyzedCommits :
            /\ (Len(c.message) = 1 /\ lower_word(c.message[1]) \in LazyWords)
                  => Cardinality(CommitHits(c, "GIT01")) = 1
            /\ Len(c.message) > 1 => CommitHits(c, "GIT01") = {}

\* An audited history with the commit "WIP", reported once, and a commit
\* with "fix" among other words, not reported.
C15_Witness ==
    /\ audited
    /\ \E c \in AnalyzedCommits :
          /\ c.message = <<"WIP">>
          /\ Cardinality(CommitHits(c, "GIT01")) = 1
    /\ \E c \in AnalyzedCommits :
          /\ Len(c.message) > 1
          /\ \E k \in 1..Len(c.message) : c.message[k] = "fix"
          /\ CommitHits(c, "GIT01") = {}

\* C16: when the history holds fewer than two commits, or there is no
\* repository, the audit takes nothing from the score, adds no violation,
\* prints a warning that it was skipped, and the run goes on to its verdict.
C16_ShortHistoryIsSkipped ==
    [][(~audited /\ audited' /\ (~history.git_dir \/ Len(history.commits) < 2)) =>
          /\ score' = score
          /\ violations' = violations
          /\ audit_git_history(history, INPUT_BRUTAL_MODE).warning # "none"
          /\ pc' = "scanned"]_vars

\* The audit of a history of one commit, "WIP" on a Friday evening, which was
\* skipped: no violation names a commit and the score lost nothing to it.
C16_Witness ==
    /\ audited
    /\ history.git_dir /\ history.log = "ok" /\ Len(history.commits) = 1
    /\ lazy(lower(history.commits[1].message))
    /\ \A k \in 1..Len(violations) : violations[k].file.dir # "commit "
    /\ score = STARTING_SCORE - SumDeductions(violations)

\* The audit of the run's history meets a git that is missing or that times
\* out: at git log, or at the changed-file lookup of one of the commits whose
\* files are looked up.
ToolFails ==
    /\ history.git_dir
    /\ \/ history.log \in {"timeout", "missing"}
       \/ /\ history.log = "ok"
          /\ Len(history.commits) >= 2
          /\ \E k \in 1..Len(history.commits) :
                k <= 10 /\ history.commits[k].stat = "timeout"

\* C17: when git is missing or times out at any point of the audit, the
\* changed-file lookups included, the audit takes nothing from the score and
\* adds no violation, and the violations of the file scan stay as they were.
C17_ToolFailureIsASkip ==
    [][(~audited /\ audited' /\ ToolFails) =>
          /\ score' = score
          /\ violations' = violations]_vars

GitIds == {"GIT01", "GIT02", "GIT03", "GIT04", "GIT05", "GIT06", "GIT07"}

\* C18: the audit reports a commit at most once under one rule id, whatever
\* its message, its time and its files; it may report it under several ids.
C18_OncePerCommitAndRule ==
    audited => \A c \in AnalyzedCommits, id \in GitIds : Cardinality(CommitHits(c, id)) <= 1

\* An audited commit whose message holds two of the keywords, reported once
\* for them, and a commit reported under four rule ids.
C18_Witness ==
    /\ audited
    /\ \E c \in AnalyzedCommits :
          /\ occurs(<<"lol">>, lower(c.message))
          /\ occurs(<<"fingers", "crossed">>, lower(c.message))
          /\ Cardinality(CommitHits(c, "GIT03")) = 1
    /\ \E c \in AnalyzedCommits :
          Cardinality({id \in GitIds : CommitHits(c, id) # {}}) >= 4

\* The commits GitScanner.scan_history classified in its last call: none
\* when the audit was skipped.
ScannedCommits ==
    IF op = "scan_history" /\ target.history.git_dir /\ target.history.log = "ok"
    THEN LET commits == Take(target.history.commits, target.commit_limit)
         IN  IF Len(commits) > 1 THEN {commits[k] : k \in 1..Len(commits)} ELSE {}
    ELSE {}

\* C19: a commit made on a Friday at 16 h or later is reported as a late
\* Friday deploy (GIT05); a Friday commit before 16 h and a commit of another
\* day are not.
C19_FridayEveningIsReported ==
    \A c \in ScannedCommits :
        (c.day = "Fri" /\ c.hour >= 16)
            <=> \E k \in 1..Len(returned) :
                    returned[k].file = CommitLoc(c.hash) /\ returned[k].rule_id = "GIT05"

\* The ten most recent commits of the run's history.
TenMostRecent ==
    {history.commits[k] : k \in {j \in 1..Len(history.commits) : j <= 10}}

\* C20: a monster-commit violation (GIT04) names one of the ten most recent
\* commits, and one that changed more than 50 files: a commit of exactly 50
\* files is not reported; the changed files of a commit beyond the tenth are
\* never looked up.
C20_MonsterOnlyAmongTenMostRecent ==
    audited =>
        /\ \A k \in 1..Len(violations) :
              violations[k].rule_id = "GIT04" =>
                  \E c \in TenMostRecent :
                      /\ violations[k].file = CommitLoc(c.hash)
                      /\ c.files > 50
        /\ \A c \in AnalyzedCommits : c.files = 50 => CommitHits(c, "GIT04") = {}
        /\ LET lookups == audit_git_history(history, INPUT_BRUTAL_MODE).lookups
           IN  \A j \in 1..Len(lookups) : \E c \in TenMostRecent : c.hash = lookups[j]

\* An audited history of twelve commits: the third, of 51 files, is reported,
\* the second, of 50 files, is not, the eleventh, of 51 files, is neither
\* looked up nor reported, and ten commits were looked up.
C20_Witness ==
    /\ audited
    /\ Len(history.commits) = 12
    /\ history.commits[3].files = 51 /\ CommitHits(history.commits[3], "GIT04") # {}
    /\ history.commits[2].files = 50 /\ CommitHits(history.commits[2], "GIT04") = {}
    /\ history.commits[11].files = 51 /\ history.commits[11].stat = "ok"
    /\ CommitHits(history.commits[11], "GIT04") = {}
    /\ LET lookups == audit_git_history(history, INPUT_BRUTAL_MODE).lookups
       IN  /\ Len(lookups) = 10
           /\ \A j \in 1..Len(lookups) : lookups[j] # history.commits[11].hash

\* The violations of the name-pattern, path-pattern, line-count and
\* missing-trailing-newline rules in a list.
Structural(vs) ==
    SelectSeq(vs, LAMBDA v : RuleOf(v.rule_id).type \in {"filename", "path", "lines", "eof"})

\* An ignore marker put at the end of a line, or a comment prefix put at its
\* start.
Remarks ==
    { <<MARK1, TRUE>>, <<MARK2, TRUE>>, <<HASH, FALSE>>, <<SLASH2, FALSE>>, <<STAR, FALSE>> }

\* The file with the token put at the end, or at the start, of line i.
Remarked(f, i, tok, at_end) ==
    [f EXCEPT !.lines[i] = IF at_end THEN Append(@, tok) ELSE <<tok>> \o @]

\* C21: the violations of the name-pattern, path-pattern, line-count and
\* missing-trailing-newline rules of a file are the same after an ignore
\* marker or a comment prefix is added to any of its lines.
C21_StructuralIgnoresMarkers ==
    op = "scan_file" =>
        \A i \in 1..Len(target.lines), r \in Remarks :
            Structural(scan_file(ignore_rules, Remarked(target, i, r[1], r[2]), brutal_mode))
                = Structural(returned)

\* A scanned file with a content violation next to violations of the path
\* and trailing-newline rules: a marker on its last line removes the first
\* and leaves the others.
C21_Witness ==
    /\ op = "scan_file"
    /\ Len(target.lines) > 0 /\ ~target.eofnl
    /\ \E k \in 1..Len(returned) : returned[k].rule_id = "VCS07"
    /\ \E k \in 1..Len(returned) : returned[k].rule_id = "HYG07"
    /\ LET marked == scan_file(ignore_rules,
                               Remarked(target, Len(target.lines), MARK1, TRUE), brutal_mode)
       IN  /\ Len(marked) < Len(returned)
           /\ Structural(marked) = Structural(returned)

\* C22: scan_file reports a file it reads once under each active line-count
\* rule whose max the file's line count exceeds, with the count in the rule
\* name, and not at all under a rule whose max the count equals or stays
\* below.
C22_LineCountLimit ==
    (op = "scan_file" /\ reads_content(target)) =>
        \A j \in 1..Len(rules) :
            rules[j].type = "lines" =>
                LET hits == {k \in 1..Len(returned) : returned[k].rule_id = rules[j].id}
                IN  IF rules[j].id \notin ignore_rules /\ NumLines(target) > rules[j].max
                    THEN /\ Cardinality(hits) = 1
                         /\ \A k \in hits :
                               returned[k].rule_name = <<rules[j].name, NumLines(target)>>
                    ELSE hits = {}

\* A file of 2001 lines, one more than the max of MNT01, reported once with
\* 2001 in the rule name.
C22_Witness ==
    /\ op = "scan_file"
    /\ NumLines(target) = 2001
    /\ Cardinality({k \in 1..Len(returned) : returned[k].rule_id = "MNT01"}) = 1
    /\ \E k \in 1..Len(returned) : returned[k].rule_name = <<"Huge File", 2001>>

HashFamily == {".py", ".sh", ".bash", ".yml", ".yaml"}
SlashFamily == {".js", ".ts", ".jsx", ".tsx", ".java", ".c", ".cpp", ".go"}
OtherExtensions == {".md", ".txt", ".h", ".rb", ".json", ".pem", ""}

\* The first token of the line that is not whitespace, "" when there is none.
FirstInk(line) ==
    LET ink == {k \in 1..Len(line) : line[k] # WS}
    IN  IF ink = {} THEN ""
        ELSE line[CHOOSE k \in ink : \A m \in ink : k <= m]

\* The lines of the scanned file, as they are, indented, and behind each of
\* the comment prefixes.
ProbedLines ==
    UNION {{target.lines[i], <<WS>> \o target.lines[i], <<WS, HASH>> \o target.lines[i],
            <<WS, SLASH2>> \o target.lines[i], <<STAR, WS>> \o target.lines[i]} :
                i \in 1..Len(target.lines)}

\* C23: is_comment_line is true exactly for a line whose first token after
\* the leading whitespace is '#', under an extension of the '#' family, or
\* is '//' or '*', under an extension of the '//' family; under any other
\* extension it is false, and so is code followed by a comment.
C23_CommentLineByFamily ==
    op = "scan_file" =>
        \A line \in ProbedLines, ext \in HashFamily \cup SlashFamily \cup OtherExtensions :
            is_comment_line(line, ext)
                <=> \/ ext \in HashFamily /\ FirstInk(line) = HASH
                    \/ ext \in SlashFamily /\ FirstInk(line) \in {SLASH2, STAR}

\* A scanned .py file with a '#' line, which is a comment in .py and indented
\* and is none in .md or .js, and a line of code with a trailing comment,
\* which is none.
C23_Witness ==
    /\ op = "scan_file"
    /\ target.path.ext = ".py"
    /\ \E i \in 1..Len(target.lines) :
          /\ startswith(target.lines[i], HASH)
          /\ is_comment_line(<<WS>> \o target.lines[i], ".py")
          /\ ~is_comment_line(target.lines[i], ".md")
          /\ ~is_comment_line(target.lines[i], ".js")
    /\ \E i \in 1..Len(target.lines) :
          /\ startswith(target.lines[i], EVAL) /\ HasToken(target.lines[i], HASH)
          /\ ~is_comment_line(target.lines[i], ".py")

AstDescs == {"Real eval() call detected via AST", "Print statement in production code"}

\* The first three matches of an active content-pattern rule in the scanned
\* file that the loop does not skip, as the lines they are on.
KeptMatches(rule) ==
    LET matches == Take(finditer(rule.pattern, target), 3)
    IN  SelectSeq(matches,
                  LAMBDA n : /\ ~HasMarker(LineAt(target, n)) /\ ~HasMarker(LineAt(target, n + 1))
                             /\ ~(is_comment_line(LineAt(target, n), target.path.ext)
                                  /\ rule.id \notin {"STB03"}))

\* C24: for a .py file that does not parse, the AST pass adds nothing, and
\* the content-pattern rules, SEC06 and HYG02 among them, are evaluated on
\* the text: each active one reports the matches it keeps, under its own
\* description.
C24_UnparsableFileFallsBackToText ==
    (op = "scan_file" /\ target.path.ext = ".py" /\ reads_content(target) /\ ~Parses(target)) =>
        /\ \A k \in 1..Len(returned) : returned[k].desc \notin AstDescs
        /\ \A j \in 1..Len(rules) :
              (rules[j].type = "regex" /\ rules[j].id \notin ignore_rules) =>
                  LET hits == SelectSeq(returned, LAMBDA v : v.rule_id = rules[j].id)
                  IN  /\ [k \in 1..Len(hits) |-> hits[k].line] = KeptMatches(rules[j])
                      /\ \A k \in 1..Len(hits) : hits[k].desc = rules[j].desc

\* A .py file that does not parse, with an eval call and a print call on
\* lines of their own: both are reported, by the content-pattern rules.
C24_Witness ==
    /\ op = "scan_file" /\ target.path.ext = ".py" /\ ~Parses(target)
    /\ \E i \in 1..Len(target.lines) : target.lines[i] = <<EVAL>>
    /\ \E i \in 1..Len(target.lines) : target.lines[i] = <<PRINTC>>
    /\ \E k \in 1..Len(returned) :
          returned[k].rule_id = "SEC06" /\ returned[k].desc = "Dangerous code execution"
    /\ \E k \in 1..Len(returned) :
          returned[k].rule_id = "HYG02" /\ returned[k].desc = "Debug output"
    /\ \A k \in 1..Len(returned) : returned[k].desc \notin AstDescs

\* C25: the AST pass reports no print call (HYG02, "Print statement in
\* production code") in a file whose path holds 'test' in any letter case.
C25_NoAstPrintInTestPaths ==
    \A k \in 1..Len(violations) :
        violations[k].desc = "Print statement in production code"
            => ~ContainsTestLower(violations[k].file)

\* The files of the run's tree that the walk reaches and open() fails on.
UnreadableAt ==
    {i \in 1..Len(work_tree) :
        /\ legacy_walked(work_tree[i])
        /\ work_tree[i].path.ext \in TEXT_EXTENSIONS
        /\ ~work_tree[i].readable}

ViolationsOf(p) == SelectSeq(violations, LAMBDA v : v.file = p)

C27_NameRuleOncePerFile ==
    pc = "scanned" =>
        \A i \in 1..Len(work_tree), j \in 1..Len(rules) :
            (/\ legacy_walked(work_tree[i])
             /\ rules[j].type = "filename" /\ rules[j].id \notin IGNORE_RULES
             /\ search_name(rules[j].pattern, work_tree[i].path)) =>
                LET hits == SelectSeq(ViolationsOf(work_tree[i].path),
                                      LAMBDA v : v.rule_id = rules[j].id)
                IN  /\ Len(hits) = 1
                    /\ SumDeductions(hits)
                          = rules[j].weight * (IF INPUT_BRUTAL_MODE THEN 2 ELSE 1)

\* Whether the loop over the matches of a rule skips a match on line n of
\* the scanned file: for an ignore marker, or for a comment line.
SkippedAt(rule, n) ==
    \/ HasMarker(LineAt(target, n)) \/ HasMarker(LineAt(target, n + 1))
    \/ is_comment_line(LineAt(target, n), target.path.ext) /\ rule.id # "STB03"

\* C28: when an active content-pattern rule has more than three matches in
\* a file and the first three are all skipped, for an ignore marker or a
\* comment line, the file gets no violation of that rule, an unsuppressed
\* fourth match notwithstanding.
C28_CapBeforeSuppression ==
    (op = "scan_file" /\ reads_content(target)) =>
        \A j \in 1..Len(rules) :
            LET matches == finditer(rules[j].pattern, target)
            IN  (/\ rules[j].type = "regex" /\ rules[j].id \notin ignore_rules
                 /\ Len(matches) > 3
                 /\ \A m \in 1..3 : SkippedAt(rules[j], matches[m]))
                    => CountId(returned, rules[j].id) = 0

\* Whether neither line n of the scanned file nor the line after it holds
\* the ignore marker.
Unmarked(n) == ~HasMarker(LineAt(target, n)) /\ ~HasMarker(LineAt(target, n + 1))

\* The lines of the eval and print calls the syntax tree of the scanned file
\* holds, a call per entry, in source order; the print calls count in a path
\* without 'test'.
CallLines ==
    Concat([i \in 1..Len(target.lines) |->
              LET calls_i == SelectSeq(CodeRegion(target.lines[i]),
                                       LAMBDA t : \/ t = EVAL
                                                  \/ t = PRINTC /\ ~ContainsTestLower(target.path))
              IN  [c \in 1..Len(calls_i) |-> i]])

LinesOf(vs) == [k \in 1..Len(vs) |-> vs[k].line]

OtherMode == scan_file(ignore_rules, target, ~brutal_mode)

\* C30: scan_file in brutal mode and in standard mode return, for the same
\* file and rule set, lists of the same length that agree entry by entry on
\* file, rule id, rule name, description and line, each brutal deduction
\* being twice the standard one.
C30_BrutalChangesDeductionsOnly ==
    op = "scan_file" =>
        LET hard == IF brutal_mode THEN returned ELSE OtherMode
            soft == IF brutal_mode THEN OtherMode ELSE returned
        IN  /\ Len(hard) = Len(soft)
            /\ \A k \in 1..Len(hard) :
                  /\ hard[k].file = soft[k].file
                  /\ hard[k].rule_id = soft[k].rule_id
                  /\ hard[k].rule_name = soft[k].rule_name
                  /\ hard[k].desc = soft[k].desc
                  /\ hard[k].line = soft[k].line
                  /\ hard[k].deduction = 2 * soft[k].deduction

\* A file scanned in brutal mode, with an eval call on a comment line that
\* the comment filter skips and violations of two rule ids, of twice the
\* weight each.
C30_Witness ==
    /\ op = "scan_file" /\ brutal_mode
    /\ \E i \in 1..Len(target.lines) :
          /\ is_comment_line(target.lines[i], target.path.ext)
          /\ HasToken(target.lines[i], EVAL)
          /\ ~Emitted(returned, "SEC06", i)
          /\ Unmarked(i)
    /\ \E k \in 1..Len(returned) :
          returned[k].rule_id = "SEC06" /\ returned[k].deduction = 140
    /\ \E k \in 1..Len(returned) :
          returned[k].rule_id = "HYG02" /\ returned[k].deduction = 10
    /\ Len(OtherMode) = Len(returned)

====
